---- MODULE Spec2Model ----
(***************************************************************************)
(* Model of the PDF ingestion script (src/ingest): main.py orchestrates,   *)
(* per page, SHA -> blocks -> char offsets -> section hint -> embeddings   *)
(* -> block store -> MCQ generation -> question store; utils_pdf.py holds  *)
(* the text functions and utils_db.py the calls to the embedding provider, *)
(* the language model and the persistence store.                           *)
(*                                                                         *)
(* Text is modelled character by character: a Python str is a sequence of  *)
(* one-character values.  Hebrew letters are written by their names        *)
(* ("het", "vav", ...), the en dash as "endash" and the section sign as    *)
(* "sect", each standing for exactly one character.  The text of a page    *)
(* and of a block is kept in the state in packed form, as the sequence of  *)
(* its runs of equal characters (Pack, Unpack), which is one-to-one with   *)
(* the sequence of its characters; every function works on the characters. *)
(***************************************************************************)
EXTENDS Integers, Sequences, FiniteSets, TLC

VARIABLES
    pc,                   \* the statement the script is at
    pdf,                  \* the PDF file: the version of each of its pages
    page_num,             \* main's loop variable
    page_sha,             \* main's locals of the page being processed
    blocks,
    full_page_text,
    section_hint,
    all_questions,
    loop_index,           \* position of the loop over suitable_blocks / all_questions
    legal_blocks,         \* the rows of table legal_blocks
    generated_questions,  \* the rows of table generated_questions
    runs,                 \* runs of the script started so far
    faults,               \* exceptions raised so far
    edits,                \* changes made to the PDF between runs
    attempted,            \* history: the pages the current run has entered, in order
    failed_step,          \* history: the step of the current page that raised
    questions_at_page_start,  \* history: generated_questions when the page was entered
    upsert_log,           \* history: what the last upsert_blocks call found and did
    first_run_blocks      \* history: legal_blocks when the first run completed

textVars == <<blocks, full_page_text, section_hint>>

runVars ==
    <<pdf, page_num, page_sha, all_questions, loop_index, legal_blocks,
      generated_questions, runs, faults, edits, attempted, failed_step,
      questions_at_page_start, upsert_log, first_run_blocks>>

vars == <<pc, textVars, runVars>>

(***************************************************************************)
(* Characters and character classes                                        *)
(***************************************************************************)
NL == "\n"

\* str.strip() and the regex class \s
Whitespace == {" ", "\t", "\n", "\r"}

\* the regex class \d
Digits == {"0", "1", "2", "3", "4", "5", "6", "7", "8", "9"}

\* the regex class [alef-tav]: the 27 letters U+05D0..U+05EA
HebrewLetters ==
    {"alef", "bet", "gimel", "dalet", "he", "vav", "zayin", "het", "tet",
     "yod", "kaf_sofit", "kaf", "lamed", "mem_sofit", "mem", "nun_sofit",
     "nun", "samekh", "ayin", "pe_sofit", "pe", "tsadi_sofit", "tsadi",
     "qof", "resh", "shin", "tav"}

\* the literal words of the patterns and of the formatted hints
W_HOQ == <<"het", "vav", "qof">>
W_SEIF == <<"samekh", "ayin", "yod", "pe_sofit">>
W_HTS == <<"he", "tav", "shin">>
DEFAULT_HINT == <<"he", "samekh", "pe", "resh">>

\* the fallback hint is cut to this many characters
FALLBACK_CHARS == 60

(***************************************************************************)
(* Python string primitives                                                *)
(***************************************************************************)
\* Body applied to value, the value being computed once: a local variable
With(value, Body(_)) == CHOOSE result \in {Body(v) : v \in {value}} : TRUE

Min(S) == CHOOSE m \in S : \A n \in S : m <= n
Max(S) == CHOOSE m \in S : \A n \in S : m >= n

\* every character of s[i..j] (1-based, inclusive) is in class C
AllIn(s, i, j, C) == \A k \in i..j : s[k] \in C

\* s has the word w at 1-based position i
HasAt(s, i, w) ==
    /\ i >= 1
    /\ i + Len(w) - 1 <= Len(s)
    /\ SubSeq(s, i, i + Len(w) - 1) = w

\* s[i:j] with 0-based i and exclusive j, clamped as Python clamps a slice
Slice(s, i, j) ==
    LET lo == IF i > Len(s) THEN Len(s) ELSE i
        hi == IF j > Len(s) THEN Len(s) ELSE j
    IN  IF hi <= lo THEN << >> ELSE SubSeq(s, lo + 1, hi)

\* s.find(sub, start): the lowest 0-based index >= start where sub occurs, or -1
Find(s, sub, start) ==
    LET FindIn(text, word) ==
            LET n == Len(word)
                found == {i \in start..(Len(text) - n) :
                            n = 0 \/ (/\ text[i + 1] = word[1]
                                      /\ SubSeq(text, i + 1, i + n) = word)}
            IN  IF found = {} THEN -1 ELSE Min(found)
    IN  With(s, LAMBDA text : With(sub, LAMBDA word : FindIn(text, word)))

\* s.strip()
Strip(s) ==
    LET StripOf(text) ==
            LET n == Len(text)
                \* how many whitespace characters text starts and ends with
                lead == CHOOSE k \in 0..n :
                            /\ k < n => text[k + 1] \notin Whitespace
                            /\ \A j \in 1..k : text[j] \in Whitespace
                trail == CHOOSE k \in 0..n :
                            /\ k < n => text[n - k] \notin Whitespace
                            /\ \A j \in 1..k : text[n + 1 - j] \in Whitespace
            IN  IF lead = n THEN << >> ELSE SubSeq(text, lead + 1, n - trail)
    IN  With(s, LAMBDA text : StripOf(text))

\* s.split(sep) for a one-character separator: always at least one piece
Split(s, sep) ==
    LET SplitAt(text, cuts) ==
            LET n == Cardinality(cuts)
                Cut(k) == IF k = 0 THEN 0
                          ELSE IF k = n + 1 THEN Len(text) + 1
                          ELSE CHOOSE i \in cuts :
                                   Cardinality({j \in cuts : j <= i}) = k
            IN  [k \in 1..(n + 1) |-> SubSeq(text, Cut(k - 1) + 1, Cut(k) - 1)]
    IN  With(s, LAMBDA text :
            With({i \in 1..Len(text) : text[i] = sep},
                 LAMBDA cuts : SplitAt(text, cuts)))

(***************************************************************************)
(* Page and block text in packed form                                      *)
(***************************************************************************)
RepeatChar(c, n) == [i \in 1..n |-> c]

\* the largest j with s[i..j] all in class C (i - 1 when s[i] is not in C):
\* where a greedy C* that starts at position i ends
RunEnd(s, i, C) ==
    LET stops == {k \in i..Len(s) : s[k] \notin C}
    IN  IF stops = {} THEN Len(s) ELSE Min(stops) - 1

RECURSIVE PackFrom(_, _)
\* the runs of equal characters of s from position i on
PackFrom(s, i) ==
    IF i > Len(s) THEN << >>
    ELSE With(RunEnd(s, i, {s[i]}), LAMBDA end :
            <<[char |-> s[i], count |-> end - i + 1]>> \o PackFrom(s, end + 1))

\* the runs of equal characters of s, in order
Pack(s) == With(s, LAMBDA chars : PackFrom(chars, 1))

RECURSIVE Unpack(_)
\* the characters of packed text t
Unpack(t) ==
    IF Len(t) = 0 THEN << >>
    ELSE RepeatChar(t[1].char, t[1].count) \o Unpack(Tail(t))

RECURSIVE TextLen(_)
\* len() of packed text t
TextLen(t) == IF Len(t) = 0 THEN 0 ELSE t[1].count + TextLen(Tail(t))

(***************************************************************************)
(* utils_pdf.compute_char_offsets                                          *)
(***************************************************************************)
\* block with the two offset fields set (block['char_start'] = ..., block['char_end'] = ...)
WithOffsets(block, char_start, char_end) ==
    [k \in DOMAIN block \cup {"char_start", "char_end"} |->
        IF k = "char_start" THEN char_start
        ELSE IF k = "char_end" THEN char_end
        ELSE block[k]]

\* a faulty variant: the search starts at the top of the page, not at current_pos
PlaceBlockFromTop(block, chars, current_pos) ==
    With(Find(chars, Unpack(block.text), 0), LAMBDA start_pos :
        IF start_pos # -1
        THEN WithOffsets(block, start_pos, start_pos + TextLen(block.text))
        ELSE WithOffsets(block, current_pos, current_pos + TextLen(block.text)))

\* a faulty variant: the found position is recorded one character too far
PlaceBlockOffByOne(block, chars, current_pos) ==
    With(Find(chars, Unpack(block.text), current_pos), LAMBDA start_pos :
        IF start_pos # -1
        THEN WithOffsets(block, start_pos + 1, start_pos + 1 + TextLen(block.text))
        ELSE WithOffsets(block, current_pos, current_pos + TextLen(block.text)))

\* one iteration of the loop, chars being the characters of full_page_text:
\* the block as the iteration leaves it
PlaceBlock(block, chars, current_pos) ==
    With(Find(chars, Unpack(block.text), current_pos), LAMBDA start_pos :
        IF start_pos # -1
        THEN WithOffsets(block, start_pos, start_pos + TextLen(block.text))
        ELSE WithOffsets(block, current_pos, current_pos + TextLen(block.text)))

RECURSIVE OffsetsFrom(_, _, _, _)
\* the loop from block i on, current_pos being the loop's running position;
\* in both branches the next current_pos is the char_end just written
OffsetsFrom(bs, chars, i, current_pos) ==
    IF i > Len(bs) THEN << >>
    ELSE With(PlaceBlock(bs[i], chars, current_pos), LAMBDA placed :
            <<placed>> \o OffsetsFrom(bs, chars, i + 1, placed.char_end))

compute_char_offsets(bs, page_text) ==
    With(Unpack(page_text), LAMBDA chars : OffsetsFrom(bs, chars, 1, 0))

(***************************************************************************)
(* utils_pdf.derive_section_hint: the regular expressions                  *)
(***************************************************************************)
\* every character of s[i..j] is outside class C
NoneIn(s, i, j, C) == \A k \in i..j : s[k] \notin C

\* RunEnd for the negated class [^C]
RunEndNot(s, i, C) ==
    LET stops == {k \in i..Len(s) : s[k] \in C}
    IN  IF stops = {} THEN Len(s) ELSE Min(stops) - 1

\* law_title_pattern  ^HOQ \s+ [^,]+ , \s+ HTS [^\d]* endash \d{4}  anchored at the
\* start of s: the 1-based end positions of its matches, where
\*   s[4..a] ~ \s+,  s[a+1..b] ~ [^,]+,  s[b+1] = ",",  s[b+2..c] ~ \s+,
\*   s[c+1..c+3] = HTS,  s[c+4..d] ~ [^\d]*,  s[d+1] = endash,  s[d+2..d+5] ~ \d{4}
LawTitleEnds(s) ==
    IF ~HasAt(s, 1, W_HOQ) THEN {}
    ELSE {d + 5 : d \in {d \in 6..(Len(s) - 5) :
            /\ s[d + 1] = "endash"
            /\ AllIn(s, d + 2, d + 5, Digits)
            /\ \E a \in 4..d :
                /\ AllIn(s, 4, a, Whitespace)
                /\ \E b \in (a + 1)..d :
                    /\ NoneIn(s, a + 1, b, {","})
                    /\ s[b + 1] = ","
                    /\ \E c \in (b + 2)..d :
                        /\ AllIn(s, b + 2, c, Whitespace)
                        /\ HasAt(s, c + 1, W_HTS)
                        /\ c + 3 <= d
                        /\ NoneIn(s, c + 4, d, Digits)}}

\* re.match(law_title_pattern, s) and re.search(law_title_pattern, s): without
\* re.MULTILINE the ^ of the pattern matches at the start of s only
LawTitleMatches(s) == LawTitleEnds(s) # {}

\* .group(0) of that match (the greedy [^\d]* tries the longest run first)
LawTitleGroup0(s) == SubSeq(s, 1, Max(LawTitleEnds(s)))

\* re.match(r'^HOQ\s+([^,]+)', s): the positions a where \s+ may end so that
\* [^,]+ still has a character to take
LawNameStarts(s) ==
    IF ~HasAt(s, 1, W_HOQ) THEN {}
    ELSE {a \in 4..(Len(s) - 1) : AllIn(s, 4, a, Whitespace) /\ s[a + 1] # ","}

LawNameMatches(s) == LawNameStarts(s) # {}

\* .group(1).strip() of that match: \s+ is greedy, then [^,]+ is greedy
LawName(s) ==
    LET a == Max(LawNameStarts(s))
    IN  Strip(SubSeq(s, a + 1, RunEndNot(s, a + 1, {","})))

\* WORD \s* ( \d+ ( \( [alef-tav0-9]+ \) )? )  with WORD = SEIF at 1-based
\* position p of s: [matched, g1 (1-based start of group 1), end (1-based end)].
\* Every quantifier is greedy and is followed by a character outside its
\* class, so the match is the one built from maximal runs.
SectionAt(s, p) ==
    IF ~HasAt(s, p, W_SEIF) THEN [matched |-> FALSE, g1 |-> 0, end |-> 0]
    ELSE LET ws == RunEnd(s, p + 4, Whitespace)
             dg == RunEnd(s, ws + 1, Digits)
             sub == RunEnd(s, dg + 2, HebrewLetters \cup Digits)
             hasSub == /\ dg + 1 <= Len(s)
                       /\ s[dg + 1] = "("
                       /\ sub >= dg + 2
                       /\ sub + 1 <= Len(s)
                       /\ s[sub + 1] = ")"
         IN  IF dg < ws + 1 THEN [matched |-> FALSE, g1 |-> 0, end |-> 0]
             ELSE [matched |-> TRUE, g1 |-> ws + 1,
                   end |-> IF hasSub THEN sub + 1 ELSE dg]

\* re.match(section_pattern, line)
SectionMatches(line) == SectionAt(line, 1).matched

\* .group(0) of that match
SectionGroup0(line) == SubSeq(line, 1, SectionAt(line, 1).end)

\* re.search(r'SEIF\s*(\d+(\([alef-tav0-9]+\))?)', page_text): the leftmost match
SectionSearchStarts(page_text) ==
    {p \in 1..Len(page_text) : SectionAt(page_text, p).matched}

SectionSearchMatches(page_text) == SectionSearchStarts(page_text) # {}

\* .group(1) of that match
SectionSearchGroup1(page_text) ==
    LET m == SectionAt(page_text, Min(SectionSearchStarts(page_text)))
    IN  SubSeq(page_text, m.g1, m.end)

(***************************************************************************)
(* utils_pdf.derive_section_hint                                           *)
(***************************************************************************)
\* f"HOQ {law_name} sect{section}"
FormatLawSection(law_name, section) ==
    W_HOQ \o <<" ">> \o law_name \o <<" ", "sect">> \o section

\* f"HOQ {law_name}"
FormatLaw(law_name) == W_HOQ \o <<" ">> \o law_name

\* the law-title branch of the loop body, taken for a stripped line
TitleBranchTaken(line) == LawTitleMatches(line) /\ LawNameMatches(line)

TitleBranch(line, page_text) ==
    IF SectionSearchMatches(page_text)
    THEN FormatLawSection(LawName(line), SectionSearchGroup1(page_text))
    ELSE FormatLaw(LawName(line))

\* the section branch of the loop body
SectionBranch(line, page_text) ==
    IF LawTitleMatches(page_text) /\ LawNameMatches(LawTitleGroup0(page_text))
    THEN FormatLawSection(LawName(LawTitleGroup0(page_text)), SectionGroup0(line))
    ELSE SectionGroup0(line)

RECURSIVE ScanLines(_, _, _)
\* the first loop from line k on: the value it returns, or returned = FALSE
\* when the loop ends without returning
ScanLines(lines, k, page_text) ==
    IF k > Len(lines) THEN [returned |-> FALSE, value |-> << >>]
    ELSE With(Strip(lines[k]), LAMBDA line :
             IF line = << >> THEN ScanLines(lines, k + 1, page_text)
             ELSE IF TitleBranchTaken(line)
                  THEN [returned |-> TRUE, value |-> TitleBranch(line, page_text)]
             ELSE IF SectionMatches(line)
                  THEN [returned |-> TRUE, value |-> SectionBranch(line, page_text)]
             ELSE ScanLines(lines, k + 1, page_text))

\* the fallback loop: the first non-empty stripped line, cut to 60 characters
FirstLineFallback(lines) ==
    LET nonEmpty == {k \in 1..Len(lines) : Strip(lines[k]) # << >>}
    IN  IF nonEmpty = {} THEN DEFAULT_HINT
        ELSE Slice(Strip(lines[Min(nonEmpty)]), 0, FALLBACK_CHARS)

\* the hint for the characters of the page text
HintOfChars(chars) ==
    With(Split(chars, NL), LAMBDA lines :
        With(ScanLines(lines, 1, chars), LAMBDA scan :
            IF scan.returned THEN scan.value ELSE FirstLineFallback(lines)))

derive_section_hint(page_text, bs) ==
    With(Unpack(page_text), LAMBDA chars : HintOfChars(chars))

(***************************************************************************)
(* The PDF, as the fitz library presents it                                *)
(***************************************************************************)
\* A page is a list of block tuples (page.get_text("blocks")) and a plain
\* text (page.get_text()).  extract_page_blocks reads the 6th element of a
\* tuple as the block type.  fitz puts there the block type (0 text, 1 image)
\* or the block number, depending on its version: pages of both layouts occur.
\* the length limits of a block that gets a question
MIN_BLOCK_CHARS == 150
MAX_BLOCK_CHARS == 1200

\* block texts at and next to the two limits
TextA == <<"a">> \o RepeatChar("x", MIN_BLOCK_CHARS - 1)
TextB == <<"b">> \o RepeatChar("x", MIN_BLOCK_CHARS - 2)
TextC == <<"c">> \o RepeatChar("x", MAX_BLOCK_CHARS - 1)
TextD == <<"d">> \o RepeatChar("x", MAX_BLOCK_CHARS)
ImageText == <<"<", "i", "m", "g", ">">>

RawBlock(text, f6, f7) == <<72, 90, 523, 104, text, f6, f7>>

\* type-first layout: two text blocks around an image and a blank block
PageTwoBlocks ==
    [raw |-> <<RawBlock(TextA \o <<NL>>, 0, 0), RawBlock(ImageText, 1, 1),
               RawBlock(<<" ", NL>>, 0, 2), RawBlock(TextB \o <<NL>>, 0, 3)>>,
     text |-> TextA \o <<NL, " ", NL>> \o TextB \o <<NL>>]

\* type-first layout: blocks at and just above the upper length limit
PageLongBlocks ==
    [raw |-> <<RawBlock(TextC \o <<NL>>, 0, 0), RawBlock(TextD \o <<NL>>, 0, 1)>>,
     text |-> TextC \o <<NL>> \o TextD \o <<NL>>]

\* number-first layout: an image block numbered 0 before a text block
PageImageFirst ==
    [raw |-> <<RawBlock(ImageText, 0, 1), RawBlock(TextA \o <<NL>>, 1, 0)>>,
     text |-> TextA \o <<NL>>]

\* a page without blocks
PageEmpty == [raw |-> << >>, text |-> << >>]

PageCatalogue ==
    <<PageTwoBlocks, PageLongBlocks, PageImageFirst, PageEmpty>>

PageVersions == 1..Len(PageCatalogue)

\* the PDF files the script is first run on: the page versions of each
Documents == {<<1, 2>>, <<3, 4, 1>>}

(***************************************************************************)
(* hashlib.sha256(...).hexdigest(), free of collisions: the digest of x    *)
(***************************************************************************)
Sha256(x) == <<"sha256", x>>

(***************************************************************************)
(* utils_pdf.compute_page_sha and utils_pdf.extract_page_blocks            *)
(***************************************************************************)
\* str(page.get_text("rawdict")) of a page is one-to-one with the page's
\* content, which the version number stands for
compute_page_sha(page) == Sha256(<<"rawdict", page>>)

RECURSIVE DecimalStr(_)
\* str(n) for n >= 0
DecimalStr(n) ==
    LET digit == <<"0", "1", "2", "3", "4", "5", "6", "7", "8", "9">>[(n % 10) + 1]
    IN  IF n < 10 THEN <<digit>> ELSE DecimalStr(n \div 10) \o <<digit>>

\* f"{i:02d}"
TwoDigits(i) == IF i < 10 THEN <<"0">> \o DecimalStr(i) ELSE DecimalStr(i)

\* f"p{page_num}-b{i:02d}"
BlockId(pn, i) ==
    <<"p">> \o DecimalStr(pn) \o <<"-", "b">> \o TwoDigits(i)

\* the condition under which tuple `block` becomes a block
IsExtracted(block) ==
    /\ Len(block) >= 5
    /\ block[6] = 0
    /\ Strip(block[5]) # << >>

\* the dict appended for tuple `block`, the i-th (0-based) of the page
ExtractedBlock(block, pn, i) ==
    [block_id |-> BlockId(pn, i),
     text |-> Pack(Strip(block[5])),
     bbox |-> [left |-> block[1], top |-> block[2],
               right |-> block[3], bottom |-> block[4]]]

RECURSIVE ExtractFrom(_, _, _)
\* the loop over enumerate(blocks) from the k-th (1-based) tuple on
ExtractFrom(raw, pn, k) ==
    IF k > Len(raw) THEN << >>
    ELSE (IF IsExtracted(raw[k])
          THEN <<ExtractedBlock(raw[k], pn, k - 1)>>
          ELSE << >>) \o ExtractFrom(raw, pn, k + 1)

\* (extracted_blocks, full_page_text) of page number pn of document doc
extract_page_blocks(doc, pn) ==
    LET page == PageCatalogue[doc[pn]]
    IN  <<ExtractFrom(page.raw, pn, 1), Pack(page.text)>>

(***************************************************************************)
(* utils_db: the database tables and the calls that write them             *)
(***************************************************************************)
DOC_ID == "part1-2020"

\* the embedding provider's vector for one text (1536 floats)
EmbeddingVector == "vector1536"

\* the rows of table that the select of upsert_blocks returns
ExistingRows(table, doc_id, page_number, sha) ==
    {r \in table : /\ r.doc_id = doc_id
                   /\ r.page_number = page_number
                   /\ r.page_sha = sha}

\* the record upsert_blocks builds for a block; the store numbers the rows
BlockRecord(block, doc_id, page_number, sha, id) ==
    [id |-> id,
     doc_id |-> doc_id,
     page_sha |-> sha,
     page_number |-> page_number,
     block_id |-> block.block_id,
     text |-> block.text,
     section_hint |-> block.section_hint,
     bbox_left |-> block.bbox.left,
     bbox_top |-> block.bbox.top,
     bbox_right |-> block.bbox.right,
     bbox_bottom |-> block.bbox.bottom,
     embedding |-> block.embedding]

\* a faulty variant: no look-up of the page before the insert
upsert_blocks_always(table, bs, doc_id, page_number, sha) ==
    table \cup {BlockRecord(bs[i], doc_id, page_number, sha,
                            Cardinality(table) + i) : i \in 1..Len(bs)}

\* a faulty variant: the batch insert is never sent
upsert_blocks_nothing(table, bs, doc_id, page_number, sha) == table

\* table legal_blocks after the call
upsert_blocks(table, bs, doc_id, page_number, sha) ==
    IF ExistingRows(table, doc_id, page_number, sha) # {}
    THEN table
    ELSE table \cup {BlockRecord(bs[i], doc_id, page_number, sha,
                                 Cardinality(table) + i) : i \in 1..Len(bs)}

(***************************************************************************)
(* utils_db.generate_mcq_for_block                                         *)
(***************************************************************************)
\* JSON values as json.loads returns them.  A number carries twice its value
\* (halves), so that 1.5 is a float with halves = 3.
JStr(chars) == [t |-> "str", s |-> chars]
JInt(n) == [t |-> "int", halves |-> 2 * n]
JFloatHalves(h) == [t |-> "float", halves |-> h]
JNull == [t |-> "null"]
JList(items) == [t |-> "list", items |-> items]
JObject(fields) == [t |-> "object", fields |-> fields]

\* Python's None
None == [t |-> "None"]

FourOptions == JList(<<JStr(<<"1">>), JStr(<<"2">>), JStr(<<"3">>), JStr(<<"4">>)>>)
ThreeOptions == JList(<<JStr(<<"1">>), JStr(<<"2">>), JStr(<<"3">>)>>)
Stem == JStr(<<"q", "?">>)

\* what the chat-completion call can give: an exception, a content that is
\* not JSON, or a content that json.loads parses to `value`
LLMResponses ==
    {[kind |-> "api_error"], [kind |-> "invalid_json"]} \cup
    {[kind |-> "json", value |-> v] : v \in
        {JObject([stem |-> Stem, options |-> FourOptions, correct_index |-> JInt(3),
                  explanation |-> JStr(<<"w">>)]),
         JObject([stem |-> Stem, options |-> FourOptions,
                  correct_index |-> JFloatHalves(3)]),
         JObject([stem |-> Stem, options |-> FourOptions, correct_index |-> JInt(4)]),
         JObject([stem |-> Stem, options |-> FourOptions, correct_index |-> JInt(-1)]),
         JObject([stem |-> Stem, options |-> FourOptions,
                  correct_index |-> JStr(<<"1">>)]),
         JObject([stem |-> Stem, options |-> FourOptions, correct_index |-> JNull]),
         JObject([stem |-> Stem, options |-> ThreeOptions, correct_index |-> JInt(0)]),
         JObject([stem |-> Stem, options |-> JStr(<<"1", "2", "3", "4">>),
                  correct_index |-> JInt(0)]),
         JObject([stem |-> Stem, options |-> FourOptions]),
         JObject([options |-> FourOptions, correct_index |-> JInt(0)]),
         JList(<<JStr(<<"s", "t", "e", "m">>)>>),
         JInt(7)}}

\* 'stem' not in mcq or 'options' not in mcq or 'correct_index' not in mcq,
\* for a dict mcq
MissingKey(mcq) ==
    \/ "stem" \notin DOMAIN mcq.fields
    \/ "options" \notin DOMAIN mcq.fields
    \/ "correct_index" \notin DOMAIN mcq.fields

\* not isinstance(mcq['options'], list) or len(mcq['options']) != 4
BadOptions(mcq) ==
    \/ mcq.fields.options.t # "list"
    \/ Len(mcq.fields.options.items) # 4

\* 0 <= mcq['correct_index'] < 4 raises TypeError unless the value is a number
ComparesWithInt(v) == v.t \in {"int", "float"}

\* not 0 <= mcq['correct_index'] < 4, for a number
BadCorrectIndex(mcq) ==
    ~(0 <= mcq.fields.correct_index.halves /\ mcq.fields.correct_index.halves < 2 * 4)

\* the value generate_mcq_for_block returns when the chat-completion call
\* gives `response`; every exception inside the try block returns None.
\* A JSON value that is not an object returns None as well: a list or a str
\* lacks the keys or raises TypeError on mcq['options'], any other value
\* raises TypeError on the `in` test.
generate_mcq_for_block(response) ==
    IF response.kind # "json" THEN None
    ELSE IF response.value.t # "object" THEN None
    ELSE IF MissingKey(response.value) THEN None
    ELSE IF BadOptions(response.value) THEN None
    ELSE IF ~ComparesWithInt(response.value.fields.correct_index) THEN None
    ELSE IF BadCorrectIndex(response.value) THEN None
    ELSE response.value

(***************************************************************************)
(* utils_db.compose_question_with_reference, insert_generated_questions    *)
(***************************************************************************)
\* mcq.get(key, '')
GetOrEmpty(mcq, key) ==
    IF key \in DOMAIN mcq.fields THEN mcq.fields[key] ELSE JStr(<< >>)

\* f"{mcq['stem']} (REU: {ref_title})", for a stem that is a JSON string
compose_question_with_reference(mcq, hint, page_number) ==
    LET ref_title == IF hint # << >> THEN hint ELSE DEFAULT_HINT
    IN  [question |-> mcq.fields.stem.s
                        \o <<" ", "(", "resh", "alef", "vav", ":", " ">>
                        \o ref_title \o <<")">>,
         ref_title |-> ref_title,
         ref_note |-> <<"ayin", "mem", "geresh", " ">> \o DecimalStr(page_number),
         choices |-> mcq.fields.options,
         correct_index |-> mcq.fields.correct_index,
         explanation |-> GetOrEmpty(mcq, "explanation")]

\* a faulty variant: the lower limit of the filter is off by one
SuitableBlocksFrom149(bs) ==
    SelectSeq(bs, LAMBDA b : /\ MIN_BLOCK_CHARS - 1 <= TextLen(b.text)
                             /\ TextLen(b.text) <= MAX_BLOCK_CHARS)

\* [b for b in blocks if 150 <= len(b['text']) <= 1200]
SuitableBlocks(bs) ==
    SelectSeq(bs, LAMBDA b : /\ MIN_BLOCK_CHARS <= TextLen(b.text)
                             /\ TextLen(b.text) <= MAX_BLOCK_CHARS)

\* the dict main appends to all_questions for a block and its composed question
QuestionEntry(block, q) ==
    [question |-> q.question,
     ref_title |-> q.ref_title,
     ref_note |-> q.ref_note,
     choices |-> q.choices,
     correct_index |-> q.correct_index,
     explanation |-> q.explanation,
     block_id |-> block.block_id,
     source_block_sha |-> Sha256(block.text)]

\* the record insert_generated_questions builds for q; the store numbers the rows
QuestionRecord(q, doc_id, page, block_id, source_block_sha, id) ==
    [id |-> id,
     doc_id |-> doc_id,
     page |-> page,
     block_id |-> block_id,
     question |-> q.question,
     ref_title |-> q.ref_title,
     ref_note |-> q.ref_note,
     choices |-> q.choices,
     correct_index |-> q.correct_index,
     explanation |-> q.explanation,
     source_block_sha |-> source_block_sha]

\* table generated_questions after the call: a plain insert of all records
insert_generated_questions(table, questions, doc_id, page, block_id, source_block_sha) ==
    table \cup {QuestionRecord(questions[i], doc_id, page, block_id,
                               source_block_sha, Cardinality(table) + i) :
                    i \in 1..Len(questions)}

(***************************************************************************)
(* Inputs of the two text functions                                        *)
(***************************************************************************)
\* the longest page text and block text, and the most blocks, that
\* compute_char_offsets is applied to
MaxTextLen == 4
MaxBlockLen == 2
MaxBlocks == 2

\* the most lines of a page that derive_section_hint is applied to
MaxLines == 3

OffsetChars == {"a", "b"}

SeqsUpTo(S, lo, hi) == UNION {[1..n -> S] : n \in lo..hi}

\* a block as extract_page_blocks builds it
MakeBlock(block_id, text) ==
    [block_id |-> block_id, text |-> text,
     bbox |-> [left |-> 0, top |-> 0, right |-> 0, bottom |-> 0]]

\* block texts are stripped and never empty (utils_pdf.py line 39 and 44)
OffsetBlockLists ==
    {[i \in 1..Len(ts) |-> MakeBlock(BlockId(1, i - 1), Pack(ts[i]))] :
        ts \in SeqsUpTo(SeqsUpTo(OffsetChars, 1, MaxBlockLen), 1, MaxBlocks)}

OffsetPageTexts == {Pack(t) : t \in SeqsUpTo(OffsetChars, 0, MaxTextLen)}

TitleLine ==
    W_HOQ \o <<" ", "mem", "kaf", "resh", ",", " ">> \o W_HTS
          \o <<"kaf", "geresh", "tet", "endash", "1", "9", "6", "9">>
TitleHeadLine == W_HOQ \o <<" ", "mem", "kaf", "resh", ",">>
TitleTailLine == W_HTS \o <<"endash", "1", "9", "6", "9">>
SectionLine == W_SEIF \o <<" ", "5">>
SubSectionLine == W_SEIF \o <<"1", "2", "(", "alef", ")", " ", "x">>
InnerSectionLine == <<"x", " ">> \o W_SEIF \o <<" ", "7">>
PlainLine == <<"x", "y">>
LongLine == RepeatChar("x", FALLBACK_CHARS + 1)

\* the lines pages are made of: a law title, a law title broken over two
\* lines, section headings, a section number inside a sentence, plain text,
\* a line longer than the fallback cut, blank lines, and indented lines
HintLines ==
    {TitleLine, <<" ">> \o TitleLine, TitleHeadLine, TitleTailLine,
     SectionLine, <<"\t">> \o SectionLine \o <<" ">>, SubSectionLine,
     InnerSectionLine, PlainLine, <<" ">> \o PlainLine \o <<" ">>,
     LongLine, << >>, <<" ", " ">>}

RECURSIVE JoinLines(_)
\* "\n".join(lines)
JoinLines(lines) ==
    IF Len(lines) = 0 THEN << >>
    ELSE IF Len(lines) = 1 THEN lines[1]
    ELSE lines[1] \o <<NL>> \o JoinLines(Tail(lines))

\* the page texts derive_section_hint is applied to: up to n lines, joined
HintPageTexts(n) == {Pack(JoinLines(ls)) : ls \in SeqsUpTo(HintLines, 0, n)}

(***************************************************************************)
(* The state before the script has run                                     *)
(***************************************************************************)
NoUpsert == [called |-> FALSE, existed |-> FALSE, inserted |-> 0, kept |-> TRUE]

RunVarsInitial ==
    /\ page_num = 0
    /\ page_sha = << >>
    /\ all_questions = << >>
    /\ loop_index = 0
    /\ legal_blocks = {}
    /\ generated_questions = {}
    /\ runs = 0
    /\ faults = 0
    /\ edits = 0
    /\ attempted = << >>
    /\ failed_step = "none"
    /\ questions_at_page_start = {}
    /\ upsert_log = NoUpsert
    /\ first_run_blocks = [done |-> FALSE, rows |-> {}]

(***************************************************************************)
(* compute_char_offsets applied to every input                             *)
(***************************************************************************)
InitOffsets ==
    /\ pc = "compute_char_offsets"
    /\ blocks \in OffsetBlockLists
    /\ full_page_text \in OffsetPageTexts
    /\ section_hint = << >>
    /\ pdf = << >>
    /\ RunVarsInitial

CallComputeCharOffsets ==
    /\ pc = "compute_char_offsets"
    /\ blocks' = compute_char_offsets(blocks, full_page_text)
    /\ pc' = "offsets_done"
    /\ UNCHANGED <<full_page_text, section_hint, runVars>>

NextOffsets == CallComputeCharOffsets

SpecOffsets == InitOffsets /\ [][NextOffsets]_vars

(***************************************************************************)
(* derive_section_hint applied to every input                              *)
(***************************************************************************)
InitHint ==
    /\ pc = "derive_section_hint"
    /\ blocks = << >>
    /\ full_page_text \in HintPageTexts(MaxLines)
    /\ section_hint = << >>
    /\ pdf = << >>
    /\ RunVarsInitial

CallDeriveSectionHint ==
    /\ pc = "derive_section_hint"
    /\ section_hint' = derive_section_hint(full_page_text, blocks)
    /\ pc' = "hint_done"
    /\ UNCHANGED <<blocks, full_page_text, runVars>>

NextHint == CallDeriveSectionHint

SpecHint == InitHint /\ [][NextHint]_vars

(***************************************************************************)
(* Properties of compute_char_offsets                                      *)
(***************************************************************************)
\* char_end of the block before block i, 0 for the first block
PrevEnd(i) == IF i = 1 THEN 0 ELSE blocks[i - 1].char_end

\* the characters of the page
PageChars == Unpack(full_page_text)

\* the 0-based positions at or after `from` where packed text occurs in the page
Occurrences(text, from) ==
    {p \in from..(Len(PageChars) - TextLen(text)) :
        \A k \in 1..TextLen(text) : PageChars[p + k] = Unpack(text)[k]}

\* C8: after compute_char_offsets every block has char_end - char_start equal
\* to the length of its text, the intervals of the blocks are ordered and
\* never overlap (char_end[i] <= char_start[j] for i before j), and a block
\* whose text occurs in full_page_text at or after the previous block's
\* char_end starts at the smallest such position.
C8_GreedyLeftToRight ==
    pc = "offsets_done" =>
        /\ \A i \in 1..Len(blocks) :
            blocks[i].char_end - blocks[i].char_start = Len(Unpack(blocks[i].text))
        /\ \A i, j \in 1..Len(blocks) :
            i < j => blocks[i].char_end <= blocks[j].char_start
        /\ \A i \in 1..Len(blocks) :
            Occurrences(blocks[i].text, PrevEnd(i)) # {} =>
                blocks[i].char_start = Min(Occurrences(blocks[i].text, PrevEnd(i)))

\* the second block's text occurs twice after the first block, which was found too
C8_Witness ==
    /\ pc = "offsets_done"
    /\ Len(blocks) >= 2
    /\ Occurrences(blocks[1].text, 0) # {}
    /\ Cardinality(Occurrences(blocks[2].text, PrevEnd(2))) >= 2
    /\ blocks[2].char_start > blocks[1].char_end

\* C9 as stated: every block lies within the page text and the page text
\* between its offsets is the block's text.
C9_EveryBlockWithinPage ==
    pc = "offsets_done" =>
        \A i \in 1..Len(blocks) :
            /\ 0 <= blocks[i].char_start
            /\ blocks[i].char_start <= blocks[i].char_end
            /\ blocks[i].char_end <= Len(PageChars)
            /\ Slice(PageChars, blocks[i].char_start, blocks[i].char_end)
                   = Unpack(blocks[i].text)

\* C9 amended: a block whose text occurs in full_page_text at or after the
\* previous block's char_end lies within the page text and the page text
\* between its offsets is its text; any other block gets the approximate
\* offsets char_start = previous char_end, char_end = char_start + len(text).
C9_FoundBlocksWithinPage ==
    pc = "offsets_done" =>
        \A i \in 1..Len(blocks) :
            IF Occurrences(blocks[i].text, PrevEnd(i)) # {}
            THEN /\ 0 <= blocks[i].char_start
                 /\ blocks[i].char_start <= blocks[i].char_end
                 /\ blocks[i].char_end <= Len(PageChars)
                 /\ Slice(PageChars, blocks[i].char_start, blocks[i].char_end)
                        = Unpack(blocks[i].text)
            ELSE /\ blocks[i].char_start = PrevEnd(i)
                 /\ blocks[i].char_end = PrevEnd(i) + Len(Unpack(blocks[i].text))

\* a found block followed by a block that is not found and ends beyond the page
C9_Witness ==
    /\ pc = "offsets_done"
    /\ Len(blocks) >= 2
    /\ Occurrences(blocks[1].text, 0) # {}
    /\ Occurrences(blocks[2].text, PrevEnd(2)) = {}
    /\ blocks[2].char_end > Len(PageChars)

(***************************************************************************)
(* Properties of derive_section_hint                                       *)
(***************************************************************************)
\* the hint the priority law title -> section number -> first line asks for
PriorityHint(page_text) ==
    LET lines == Split(page_text, NL)
        stripped == [k \in 1..Len(lines) |-> Strip(lines[k])]
        titles == {k \in 1..Len(lines) : LawTitleMatches(stripped[k])}
        sections == {k \in 1..Len(lines) : SectionMatches(stripped[k])}
        nonEmpty == {k \in 1..Len(lines) : stripped[k] # << >>}
    IN  IF titles # {}
        THEN IF SectionSearchMatches(page_text)
             THEN FormatLawSection(LawName(stripped[Min(titles)]),
                                   SectionSearchGroup1(page_text))
             ELSE FormatLaw(LawName(stripped[Min(titles)]))
        ELSE IF sections # {} THEN SectionGroup0(stripped[Min(sections)])
        ELSE IF nonEmpty # {} THEN Slice(stripped[Min(nonEmpty)], 0, FALLBACK_CHARS)
        ELSE DEFAULT_HINT

\* C7 as stated: the hint is the law-title hint when any line matches the
\* law-title pattern, else the section when any line matches the section
\* pattern, else the first non-empty line cut to 60 characters, else the
\* default; and it is never empty.
C7_PriorityLaw ==
    pc = "hint_done" =>
        /\ section_hint = PriorityHint(PageChars)
        /\ section_hint # << >>

(***************************************************************************)
(* main.py: runs of the script over the PDF                                *)
(***************************************************************************)
\* how many runs of the script and how many raised exceptions a behaviour
\* has at most
MaxRuns == 2
MaxFaults == 1

total_pages == Len(pdf)

\* block with section_hint set (block['section_hint'] = section_hint)
WithHint(block, hint) ==
    [k \in DOMAIN block \cup {"section_hint"} |->
        IF k = "section_hint" THEN hint ELSE block[k]]

\* block with embedding set (block['embedding'] = embeddings[i])
WithEmbedding(block, vector) ==
    [k \in DOMAIN block \cup {"embedding"} |->
        IF k = "embedding" THEN vector ELSE block[k]]

\* a faulty variant: the exception ends the loop and the run
ExceptBreak == "complete"

\* where the except clause of the page loop goes on: `continue`, the loop head

ExceptTarget == "loop"

Init ==
    /\ pc = "not_started"
    /\ pdf \in Documents
    /\ blocks = << >>
    /\ full_page_text = << >>
    /\ section_hint = << >>
    /\ RunVarsInitial

\* the script is started (the PDF exists): lines 20-30
StartRun ==
    /\ pc \in {"not_started", "complete"}
    /\ runs < MaxRuns
    /\ runs' = runs + 1
    /\ pc' = "loop"
    /\ page_num' = 0
    /\ attempted' = << >>
    /\ failed_step' = "none"
    /\ UNCHANGED <<pdf, page_sha, textVars, all_questions, loop_index, legal_blocks,
                   generated_questions, faults, edits, questions_at_page_start,
                   upsert_log, first_run_blocks>>

\* the PDF file is replaced by a revised edition between two runs, which
\* happens at most once: one page gets another content
EditPdf ==
    /\ pc = "complete"
    /\ edits = 0
    /\ runs < MaxRuns
    /\ edits' = edits + 1
    /\ \E p \in 1..Len(pdf) : \E v \in PageVersions \ {pdf[p]} :
        pdf' = [pdf EXCEPT ![p] = v]
    /\ UNCHANGED <<pc, page_num, page_sha, textVars, all_questions, loop_index,
                   legal_blocks, generated_questions, runs, faults, attempted,
                   failed_step, questions_at_page_start, upsert_log, first_run_blocks>>

\* what entering the next page does to the loop variable and the histories;
\* the locals of the page before are dead and are cleared
EnterPage ==
    /\ pc = "loop"
    /\ page_num < total_pages
    /\ page_num' = page_num + 1
    /\ attempted' = Append(attempted, page_num + 1)
    /\ questions_at_page_start' = generated_questions
    /\ upsert_log' = NoUpsert
    /\ blocks' = << >>
    /\ full_page_text' = << >>
    /\ section_hint' = << >>
    /\ all_questions' = << >>
    /\ loop_index' = 0
    /\ UNCHANGED <<pdf, legal_blocks, generated_questions, runs, edits,
                   first_run_blocks>>

\* lines 33-41: the loop head, page = doc[page_num - 1], step 1
ComputePageSha ==
    /\ EnterPage
    /\ page_sha' = compute_page_sha(pdf[page_num + 1])
    /\ failed_step' = "none"
    /\ pc' = "extract"
    /\ UNCHANGED faults

\* lines 33-41 when loading the page or hashing it raises
ComputePageShaRaises ==
    /\ EnterPage
    /\ faults < MaxFaults
    /\ faults' = faults + 1
    /\ page_sha' = << >>
    /\ failed_step' = "page_sha"
    /\ pc' = ExceptTarget

\* a step of the page raises: the except clause of lines 122-126
Raise(at, step) ==
    /\ pc = at
    /\ faults < MaxFaults
    /\ faults' = faults + 1
    /\ failed_step' = step
    /\ pc' = ExceptTarget
    /\ UNCHANGED <<pdf, page_num, page_sha, textVars, all_questions, loop_index,
                   legal_blocks, generated_questions, runs, edits, attempted,
                   questions_at_page_start, upsert_log, first_run_blocks>>

\* lines 43-49: step 2, and the skip of a page without blocks
ExtractPageBlocks ==
    /\ pc = "extract"
    /\ \E extracted \in {extract_page_blocks(pdf, page_num)} :
           /\ blocks' = extracted[1]
           /\ full_page_text' = extracted[2]
           /\ pc' = IF extracted[1] = << >> THEN "loop" ELSE "offsets"
    /\ UNCHANGED <<section_hint, runVars>>

ExtractPageBlocksRaises == Raise("extract", "extract")

\* lines 51-60: steps 3 and 4
OffsetsAndHint ==
    /\ pc = "offsets"
    /\ \E placed \in {compute_char_offsets(blocks, full_page_text)} :
       \E hint \in {derive_section_hint(full_page_text, placed)} :
           /\ section_hint' = hint
           /\ blocks' = [i \in 1..Len(placed) |-> WithHint(placed[i], hint)]
    /\ pc' = "embed"
    /\ UNCHANGED <<full_page_text, runVars>>

\* lines 62-69: step 5, the provider answering with one vector per text
CreateEmbeddings ==
    /\ pc = "embed"
    /\ blocks' = [i \in 1..Len(blocks) |-> WithEmbedding(blocks[i], EmbeddingVector)]
    /\ pc' = "upsert"
    /\ UNCHANGED <<full_page_text, section_hint, runVars>>

\* create_embeddings re-raises the provider's exception (utils_db.py 39-41)
CreateEmbeddingsRaises == Raise("embed", "embed")

\* lines 71-80: step 6, then suitable_blocks and all_questions = []
UpsertBlocks ==
    /\ pc = "upsert"
    /\ legal_blocks' = upsert_blocks(legal_blocks, blocks, DOC_ID, page_num, page_sha)
    /\ upsert_log' =
        [called |-> TRUE,
         existed |-> \E r \in legal_blocks :
                        /\ r.doc_id = DOC_ID
                        /\ r.page_number = page_num
                        /\ r.page_sha = page_sha,
         inserted |-> Cardinality(legal_blocks') - Cardinality(legal_blocks),
         kept |-> legal_blocks \subseteq legal_blocks']
    /\ all_questions' = << >>
    /\ loop_index' = 1
    /\ pc' = "generate_mcq"
    /\ UNCHANGED <<pdf, page_num, page_sha, textVars, generated_questions, runs,
                   faults, edits, attempted, failed_step, questions_at_page_start,
                   first_run_blocks>>

\* the select or the insert of upsert_blocks raises: no row is written
UpsertBlocksRaises == Raise("upsert", "upsert")

\* lines 81-105: one iteration of the loop over suitable_blocks, the
\* language model answering with any of LLMResponses
GenerateMcq ==
    /\ pc = "generate_mcq"
    /\ loop_index <= Len(SuitableBlocks(blocks))
    /\ \E response \in LLMResponses :
        LET block == SuitableBlocks(blocks)[loop_index]
            mcq == generate_mcq_for_block(response)
        IN  all_questions' =
                IF mcq.t # "None"
                THEN Append(all_questions,
                            QuestionEntry(block,
                                compose_question_with_reference(mcq, section_hint,
                                                                page_num)))
                ELSE all_questions
    /\ loop_index' = loop_index + 1
    /\ UNCHANGED <<pc, pdf, page_num, page_sha, textVars, legal_blocks,
                   generated_questions, runs, faults, edits, attempted, failed_step,
                   questions_at_page_start, upsert_log, first_run_blocks>>

\* lines 107-120: after the loop, on to step 8 or, without questions, the next page
AfterGenerate ==
    /\ pc = "generate_mcq"
    /\ loop_index > Len(SuitableBlocks(blocks))
    /\ pc' = IF all_questions # << >> THEN "insert_questions" ELSE "loop"
    /\ loop_index' = 1
    /\ UNCHANGED <<pdf, page_num, page_sha, textVars, all_questions, legal_blocks,
                   generated_questions, runs, faults, edits, attempted, failed_step,
                   questions_at_page_start, upsert_log, first_run_blocks>>

\* lines 110-117: one iteration of the loop over all_questions
InsertQuestion ==
    /\ pc = "insert_questions"
    /\ loop_index <= Len(all_questions)
    /\ LET q == all_questions[loop_index]
       IN  generated_questions' =
               insert_generated_questions(generated_questions, <<q>>, DOC_ID,
                                          page_num, q.block_id, q.source_block_sha)
    /\ loop_index' = loop_index + 1
    /\ UNCHANGED <<pc, pdf, page_num, page_sha, textVars, all_questions, legal_blocks,
                   runs, faults, edits, attempted, failed_step,
                   questions_at_page_start, upsert_log, first_run_blocks>>

\* the insert of insert_generated_questions raises: the questions left are dropped
InsertQuestionRaises ==
    /\ loop_index <= Len(all_questions)
    /\ Raise("insert_questions", "insert_questions")

\* line 118: the page is complete
PageComplete ==
    /\ pc = "insert_questions"
    /\ loop_index > Len(all_questions)
    /\ pc' = "loop"
    /\ UNCHANGED <<textVars, runVars>>

\* lines 128-129: after the last page, doc.close() and "Ingestion complete";
\* the process ends and its locals with it
RunComplete ==
    /\ pc = "loop"
    /\ page_num >= total_pages
    /\ pc' = "complete"
    /\ failed_step' = "none"
    /\ first_run_blocks' =
        IF first_run_blocks.done THEN first_run_blocks
        ELSE [done |-> TRUE, rows |-> legal_blocks]
    /\ page_sha' = << >>
    /\ blocks' = << >>
    /\ full_page_text' = << >>
    /\ section_hint' = << >>
    /\ all_questions' = << >>
    /\ loop_index' = 0
    /\ questions_at_page_start' = generated_questions
    /\ upsert_log' = NoUpsert
    /\ UNCHANGED <<pdf, page_num, legal_blocks, generated_questions, runs, faults,
                   edits, attempted>>

\* the steps of a run: the script is one thread that takes them in turn
RunStep ==
    \/ ComputePageSha
    \/ ComputePageShaRaises
    \/ ExtractPageBlocks
    \/ ExtractPageBlocksRaises
    \/ OffsetsAndHint
    \/ CreateEmbeddings
    \/ CreateEmbeddingsRaises
    \/ UpsertBlocks
    \/ UpsertBlocksRaises
    \/ GenerateMcq
    \/ AfterGenerate
    \/ InsertQuestion
    \/ InsertQuestionRaises
    \/ PageComplete
    \/ RunComplete

Next == StartRun \/ EditPdf \/ RunStep

Spec == Init /\ [][Next]_vars

\* a started run is never abandoned: the interpreter executes the next statement
FairSpec == Spec /\ WF_vars(RunStep)

(***************************************************************************)
(* Properties of the runs                                                  *)
(***************************************************************************)
\* the rows the processing of the current page has added to generated_questions
NewQuestions == generated_questions \ questions_at_page_start

\* two rows of legal_blocks with the same (doc_id, page_number, block_id)
SameBlock(r1, r2) ==
    /\ r1.doc_id = r2.doc_id
    /\ r1.page_number = r2.page_number
    /\ r1.block_id = r2.block_id

\* two rows of generated_questions with the same
\* (doc_id, page, block_id, source_block_sha)
SameQuestionKey(r1, r2) ==
    /\ r1.doc_id = r2.doc_id
    /\ r1.page = r2.page
    /\ r1.block_id = r2.block_id
    /\ r1.source_block_sha = r2.source_block_sha

\* packed text t is not empty and neither starts nor ends with whitespace
IsStripped(t) ==
    /\ Len(t) > 0
    /\ t[1].char \notin Whitespace
    /\ t[Len(t)].char \notin Whitespace

\* C1 as stated: an upsert_blocks call for a (doc_id, page_number, page_sha)
\* that has rows inserts no row and leaves every row unchanged, and after
\* any number of runs over the unchanged PDF legal_blocks equals its
\* contents after the first run.
C1_EqualsFirstRun ==
    /\ (upsert_log.called /\ upsert_log.existed) =>
           (upsert_log.inserted = 0 /\ upsert_log.kept)
    /\ (pc = "complete" /\ first_run_blocks.done /\ edits = 0) =>
           legal_blocks = first_run_blocks.rows

\* C1 amended: an upsert_blocks call for a (doc_id, page_number, page_sha)
\* that has rows inserts no row and leaves every row unchanged; every row
\* the first run stored stays in legal_blocks; and over the unchanged PDF a
\* later run adds rows only for pages of which the first run stored none.
C1_IdempotentUpsert ==
    /\ (upsert_log.called /\ upsert_log.existed) =>
           (upsert_log.inserted = 0 /\ upsert_log.kept)
    /\ first_run_blocks.done => first_run_blocks.rows \subseteq legal_blocks
    /\ (first_run_blocks.done /\ edits = 0) =>
           \A r \in legal_blocks \ first_run_blocks.rows :
               \A s \in first_run_blocks.rows : r.page_number # s.page_number

\* the second run over the unchanged PDF finds the rows of page 1 and skips
\* the insert, after a first run that stored page 1 but not page 2
C1_Witness ==
    /\ runs = 2
    /\ edits = 0
    /\ pc = "generate_mcq"
    /\ page_num = 1
    /\ upsert_log.called
    /\ upsert_log.existed
    /\ \A r \in first_run_blocks.rows : r.page_number = 1

\* C2: legal_blocks holds at most one row per (doc_id, page_number,
\* block_id), whether or not a page's content changed between runs, and no
\* run modifies or deletes a row that an earlier run stored.
C2_OneRowPerBlock ==
    /\ \A r1, r2 \in legal_blocks : SameBlock(r1, r2) => r1 = r2
    /\ upsert_log.kept
    /\ first_run_blocks.done => first_run_blocks.rows \subseteq legal_blocks

\* C3: generated_questions never holds two rows for the same
\* (doc_id, page, block_id, source_block_sha), however often a page whose
\* questions are stored is ingested again.
C3_OneRowPerQuestionKey ==
    \A r1, r2 \in generated_questions : SameQuestionKey(r1, r2) => r1 = r2

\* C4: the pages attempted in a run are 1, 2, ... in ascending order, each
\* once; a raised exception ends the processing of its page only and leaves
\* the loop at its head; 'Ingestion complete' is reached only after page N;
\* and every started run eventually reaches it.
C4_CatchAndContinue ==
    /\ [](attempted = [i \in 1..page_num |-> i])
    /\ [](pc = "complete" => page_num = total_pages)
    /\ [][faults' > faults =>
            /\ pc' = "loop"
            /\ attempted' \in {attempted, Append(attempted, page_num + 1)}
            /\ legal_blocks' = legal_blocks
            /\ generated_questions' = generated_questions]_vars
    /\ (pc \notin {"not_started", "complete"}) ~> (pc = "complete")

\* the page after the one whose processing raised is processed and stored in
\* the same run
C4_Witness ==
    /\ runs = 1
    /\ faults = 1
    /\ page_num = 2
    /\ attempted = <<1, 2>>
    /\ pc = "generate_mcq"
    /\ upsert_log.inserted > 0

\* C5: every MCQ generate_mcq_for_block returned and every row of
\* generated_questions has exactly 4 choices and a correct_index that is an
\* integer in 0..3, whatever JSON the language model returns.
C5_StructurallyValid ==
    \A q \in {all_questions[i] : i \in 1..Len(all_questions)} \cup generated_questions :
        /\ q.choices.t = "list"
        /\ Len(q.choices.items) = 4
        /\ q.correct_index.t = "int"
        /\ q.correct_index.halves \in {0, 2, 4, 6}

\* C6: every row the processing of a page stores in generated_questions
\* carries that page's number and the block_id of exactly one block
\* extracted from the page, whose stripped text has 150 to 1200 characters
\* and whose SHA-256 is the row's source_block_sha; and one processing of a
\* page stores at most one row per block.
C6_QuestionFromOneBlock ==
    \A r \in NewQuestions :
        /\ r.doc_id = DOC_ID
        /\ r.page = page_num
        /\ Cardinality({i \in 1..Len(blocks) : blocks[i].block_id = r.block_id}) = 1
        /\ \A i \in 1..Len(blocks) :
            blocks[i].block_id = r.block_id =>
                /\ IsStripped(blocks[i].text)
                /\ MIN_BLOCK_CHARS <= TextLen(blocks[i].text)
                /\ TextLen(blocks[i].text) <= MAX_BLOCK_CHARS
                /\ r.source_block_sha = Sha256(blocks[i].text)
        /\ \A s \in NewQuestions : s.block_id = r.block_id => s = r

\* a question is stored for the block of 150 characters of a page whose
\* other block, of 149 characters, gets none
C6_Witness ==
    /\ pc = "loop"
    /\ Len(blocks) = 2
    /\ Cardinality(NewQuestions) = 1
    /\ \E r \in NewQuestions : \E i, j \in 1..Len(blocks) :
        /\ blocks[i].block_id = r.block_id
        /\ TextLen(blocks[i].text) = MIN_BLOCK_CHARS
        /\ TextLen(blocks[j].text) = MIN_BLOCK_CHARS - 1

\* C10: each row of generated_questions has a row of legal_blocks with the
\* same doc_id, page number and block_id; a question is generated or stored
\* for a page only when legal_blocks holds the page's blocks; and when the
\* embedding call or the block insert of a page raises, no question is
\* generated or stored for that page in that run.
C10_BlocksBeforeQuestions ==
    /\ \A q \in generated_questions : \E b \in legal_blocks :
        /\ b.doc_id = q.doc_id
        /\ b.page_number = q.page
        /\ b.block_id = q.block_id
    /\ (all_questions # << >> \/ NewQuestions # {}) =>
           ExistingRows(legal_blocks, DOC_ID, page_num, page_sha) # {}
    /\ failed_step \in {"embed", "upsert"} =>
           (all_questions = << >> /\ NewQuestions = {})

\* the embedding call or the block insert of page 2 has raised after page 1
\* got its blocks and a question stored: page 2 has neither
C10_Witness ==
    /\ failed_step \in {"embed", "upsert"}
    /\ page_num = 2
    /\ \E q \in generated_questions : q.page = 1
    /\ \A q \in generated_questions : q.page # 2
    /\ \A b \in legal_blocks : b.page_number # 2

====
